---- MODULE Spec2Model ----
(***************************************************************************)
(* Model of MetronomeCore (src/src/core/MetronomeCore.ts): the lookahead   *)
(* scheduler, the tempo/meter/accent state, the transport (start, stop,    *)
(* toggle, handle, dispose) and the two observer registries; and of the    *)
(* bpm and state refs of the Vue composable useMetronome                   *)
(* (src/src/index.ts) that wraps it.                                       *)
(*                                                                         *)
(* Every public method and every event-loop entry (the setTimeout callback *)
(* of scheduleLoop, the continuation of start() after its await) is one    *)
(* action.  A method body is an operator from the object's state to the    *)
(* object's state, so that a method called from inside another one - in    *)
(* particular a method called by an observer callback while a notification *)
(* pass or a poll pass is running - is evaluated in place, in the order    *)
(* the JavaScript call stack evaluates it.                                 *)
(*                                                                         *)
(* Time is counted in units of 1/TicksPerSecond seconds; the tempi the     *)
(* model uses divide 60 * TicksPerSecond, so 60 / bpm is exact.            *)
(***************************************************************************)
EXTENDS Integers, Sequences, FiniteSets, TLC

\* ---------------------------------------------------------------------------
\* Program constants (constructor defaults) and the time unit
\* ---------------------------------------------------------------------------
TicksPerSecond == 30

DefaultBpm == 90
DefaultMeter == 4
minBpm == 30
maxBpm == 300
accentFrequency == 1200
normalFrequency == 800
\* scheduleAheadTime = 0.1 s, in time units
scheduleAheadTime == 3

\* ---------------------------------------------------------------------------
\* Bounds of the model
\* ---------------------------------------------------------------------------
MaxTime == 20
MaxTimers == 2
MaxSubs == 2
MaxObservers == 1
MaxAccents == 2

\* How far the audio clock may move between two event-loop entries.
ClockSteps == {10}

\* Values written to bpm, amounts of increaseBpm/decreaseBpm, meters written,
\* beat indexes passed to toggleAccent/setAccent.
BpmInputs == {20, 150, 400}
BpmAmounts == {270}
MeterInputs == {0, 1, 2}
BeatIndexes == {-1, 0, 1, 2}

\* Observer callbacks, named by what the callback does when it is invoked:
\*   obs       only observes
\*   once      calls the unsubscribe functions it was given for itself
\*   stopper   calls stop()
\*   disposer  calls dispose()
\*   vue       the callback useMetronome registers with onStateChange
Callbacks == {"obs", "once", "stopper", "disposer", "vue"}
Kinds == {"tick", "state"}

\* ---------------------------------------------------------------------------
\* Helpers
\* ---------------------------------------------------------------------------
Min(a, b) == IF a < b THEN a ELSE b
Max(a, b) == IF a > b THEN a ELSE b

\* config.x ?? d : an absent option is <<>>, a present one is <<x>>
Nullish(opt, d) == IF opt = <<>> THEN d ELSE opt[1]

BoolSeqs(n) == UNION {[1..k -> BOOLEAN] : k \in 0..n}

\* Array.prototype.indexOf, 1-based; 0 when absent (-1 in the source)
IndexOf(arr, x) ==
  IF \E i \in 1..Len(arr) : arr[i] = x
  THEN CHOOSE i \in 1..Len(arr) : arr[i] = x /\ \A j \in 1..(i - 1) : arr[j] # x
  ELSE 0

\* Array.prototype.splice(index, 1)
Splice(arr, i) == [j \in 1..(Len(arr) - 1) |-> IF j < i THEN arr[j] ELSE arr[j + 1]]

\* ---------------------------------------------------------------------------
\* State
\* ---------------------------------------------------------------------------
VARIABLES
  \* fields of MetronomeCore
  audioContext,          \* "null", "suspended" or "running"
  oscillator,            \* TRUE when the tone generator handle is live
  gainNode,              \* TRUE when the envelope handle is live
  nextTickTime,
  lastTickTime,
  timeOffset,
  scheduleIntervalId,    \* 0 for null, else the id setTimeout returned
  isPlaying,
  pulse,
  meter,
  bpm,
  accents,
  stateChangeCallbacks,
  tickCallbacks,
  \* refs and watcher of useMetronome
  bpmRef,                \* bpm.value
  stateRef,              \* state.value
  bpmWatched,            \* the value of bpm the watcher saw last
  bpmWatcherQueued,      \* the job of watch(bpm, ...) is queued
  \* environment
  now,                   \* audioContext.currentTime
  timers,                \* ids of the setTimeout callbacks still pending
  pendingStarts,         \* start() calls suspended at their await
  unsubscribers,         \* the unsubscribe functions handed out so far
  callerArray,           \* the accents array the caller holds: the one it
                         \* passed in or was handed out last
  sharesCaller,          \* _accents is that same array object
  \* observation of the run (history), written by the operations below
  haltedActivity,        \* what the latest entry still did after a stop()
                         \* or dispose() it contained had returned
  prevTick,              \* <<last tick of this Running period>>, <<>> if none
  passTicks,             \* the ticks of the latest entry, in order
  pass,                  \* <<poll pass of the latest entry>>, <<>> if none
  hasPrev,               \* a tick was submitted in this Running period
  afterStart,            \* a start() completed and no tick followed yet
  bpmChanged,            \* bpm changed value since the last tick
  resumeOffset,          \* <<d>> recorded by the last stop(), <<>> if void
                         \* or used by a start() since
  expectFirst,           \* <<T' + d, d>> for the first tick after a start
  invoked,               \* <<kind, callback>> invoked in the latest entry
  staleInvoked,          \* ... although unsubscribed before their pass began
  goneInvoked,           \* ... although disposed of before their pass began
  missed,                \* <<kind, callback>> registered throughout a pass of
                         \* the latest entry that the pass did not invoke
  op,                    \* the latest entry: the call made, what it changed
  focus                  \* which part of the history is kept: "transport"
                         \* (haltedActivity .. expectFirst), "observers"
                         \* (invoked .. missed), "calls" (op) or "storage"
                         \* (op, and the caller's array is followed)

vars == <<audioContext, oscillator, gainNode, nextTickTime, lastTickTime,
          timeOffset, scheduleIntervalId, isPlaying, pulse, meter, bpm,
          accents, stateChangeCallbacks, tickCallbacks, bpmRef, stateRef,
          bpmWatched, bpmWatcherQueued, now, timers,
          pendingStarts, unsubscribers, callerArray, sharesCaller,
          haltedActivity, prevTick,
          passTicks, pass, hasPrev, afterStart, bpmChanged, resumeOffset,
          expectFirst, invoked, staleInvoked, goneInvoked, missed, op, focus>>

\* The object and its environment as one record.  oldState and oldTick hold
\* the arrays that dispose() replaced while a for-of loop was still iterating
\* them, sink the rendering request playTick handed to the audio engine last;
\* calls the observer calls made so far, halted whether a stop() or dispose()
\* of this entry has returned, notes the number of notifyStateChange() calls,
\* outcome how the call of this entry ended ("ok", "suspended" at an await or
\* "rejected") and via the public method a resumed start() was called by;
\* snapshot is the state object the running notifyStateChange() hands to its
\* callbacks, bpmSyncPending and isUpdatingFromCore the two flags of
\* useMetronome; they live only while an entry is being evaluated.
This ==
  [audioContext |-> audioContext, oscillator |-> oscillator,
   gainNode |-> gainNode, nextTickTime |-> nextTickTime,
   lastTickTime |-> lastTickTime, timeOffset |-> timeOffset,
   scheduleIntervalId |-> scheduleIntervalId, isPlaying |-> isPlaying,
   pulse |-> pulse, meter |-> meter, bpm |-> bpm, accents |-> accents,
   stateChangeCallbacks |-> stateChangeCallbacks,
   tickCallbacks |-> tickCallbacks, bpmRef |-> bpmRef,
   stateRef |-> stateRef, bpmWatched |-> bpmWatched,
   bpmWatcherQueued |-> bpmWatcherQueued, now |-> now, timers |-> timers,
   pendingStarts |-> pendingStarts, unsubscribers |-> unsubscribers,
   callerArray |-> callerArray, sharesCaller |-> sharesCaller,
   haltedActivity |-> haltedActivity,
   prevTick |-> prevTick, passTicks |-> passTicks, pass |-> pass,
   hasPrev |-> hasPrev, afterStart |-> afterStart, bpmChanged |-> bpmChanged,
   resumeOffset |-> resumeOffset, expectFirst |-> expectFirst,
   invoked |-> invoked, staleInvoked |-> staleInvoked,
   goneInvoked |-> goneInvoked, missed |-> missed,
   oldState |-> <<>>, oldTick |-> <<>>, sink |-> <<>>, calls |-> <<>>,
   halted |-> FALSE, notes |-> 0, outcome |-> "ok", via |-> "",
   snapshot |-> <<>>, bpmSyncPending |-> FALSE, isUpdatingFromCore |-> FALSE]

\* An entry from the event loop begins: the record of the previous entry is
\* folded away.
Enter ==
  [This EXCEPT
     !.passTicks = <<>>, !.pass = <<>>, !.haltedActivity = {},
     !.invoked = {}, !.staleInvoked = {}, !.goneInvoked = {}, !.missed = {}]

\* Timer ids are only ever compared with scheduleIntervalId, so an entry ends
\* by renaming them: 1 is the id scheduleIntervalId holds, 2, 3, ... are the
\* other pending timers.
TimerIds(s) ==
  (IF s.scheduleIntervalId \in s.timers THEN {1} ELSE {})
    \cup 2..(Cardinality(s.timers \ {s.scheduleIntervalId}) + 1)

\* The fields of the object a call may read or write, as an entry leaves
\* them.
Fields(s) ==
  [audioContext |-> s.audioContext, oscillator |-> s.oscillator,
   gainNode |-> s.gainNode, nextTickTime |-> s.nextTickTime,
   lastTickTime |-> s.lastTickTime, timeOffset |-> s.timeOffset,
   scheduleIntervalId |-> IF s.scheduleIntervalId = 0 THEN 0 ELSE 1,
   isPlaying |-> s.isPlaying, pulse |-> s.pulse, meter |-> s.meter,
   bpm |-> s.bpm, accents |-> s.accents,
   stateChangeCallbacks |-> s.stateChangeCallbacks,
   tickCallbacks |-> s.tickCallbacks, timers |-> TimerIds(s),
   pendingStarts |-> s.pendingStarts]

FieldNames == DOMAIN Fields(This)

\* The record of an entry: the call (name, arguments), the fields it left
\* with another value than it found, the values it found, and what it did.
OpRecord(name, arg, s) ==
  [name |-> name, arg |-> arg,
   changed |-> {f \in FieldNames : Fields(s)[f] # Fields(This)[f]},
   pre |-> [isPlaying |-> isPlaying, meter |-> meter, accents |-> accents,
            bpm |-> bpm,
            disposed |-> (audioContext = "null" /\ ~isPlaying
                           /\ stateChangeCallbacks = <<>>
                           /\ tickCallbacks = <<>>)],
   notes |-> s.notes, outcome |-> s.outcome, via |-> s.via,
   halted |-> s.halted,
   ticks |-> [i \in 1..Len(s.passTicks) |-> s.passTicks[i].tick.time]]

NoOp ==
  [name |-> "new", arg |-> <<>>, changed |-> {},
   pre |-> [isPlaying |-> FALSE, meter |-> 0, accents |-> <<>>, bpm |-> 0,
            disposed |-> FALSE],
   notes |-> 0, outcome |-> "ok", via |-> "", halted |-> FALSE,
   ticks |-> <<>>]

CommitAs(name, arg, s) ==
  /\ op' = IF focus \in {"calls", "storage"} THEN OpRecord(name, arg, s)
           ELSE op
  /\ audioContext' = s.audioContext
  /\ oscillator' = s.oscillator
  /\ gainNode' = s.gainNode
  /\ nextTickTime' = s.nextTickTime
  /\ lastTickTime' = s.lastTickTime
  /\ timeOffset' = s.timeOffset
  /\ scheduleIntervalId' = IF s.scheduleIntervalId = 0 THEN 0 ELSE 1
  /\ isPlaying' = s.isPlaying
  /\ pulse' = s.pulse
  /\ meter' = s.meter
  /\ bpm' = s.bpm
  /\ accents' = s.accents
  /\ stateChangeCallbacks' = s.stateChangeCallbacks
  /\ tickCallbacks' = s.tickCallbacks
  /\ bpmRef' = s.bpmRef
  /\ stateRef' = s.stateRef
  /\ bpmWatched' = s.bpmWatched
  /\ bpmWatcherQueued' = s.bpmWatcherQueued
  /\ now' = s.now
  /\ timers' = TimerIds(s)
  /\ pendingStarts' = s.pendingStarts
  /\ unsubscribers' = s.unsubscribers
  /\ focus' = focus
  /\ IF focus = "storage"
     THEN /\ callerArray' = IF s.sharesCaller THEN s.accents
                            ELSE s.callerArray
          /\ sharesCaller' = s.sharesCaller
     ELSE UNCHANGED <<callerArray, sharesCaller>>
  /\ IF focus = "transport"
     THEN /\ haltedActivity' = s.haltedActivity
          /\ prevTick' = s.prevTick
          /\ passTicks' = s.passTicks
          /\ pass' = s.pass
          /\ hasPrev' = s.hasPrev
          /\ afterStart' = s.afterStart
          /\ bpmChanged' = s.bpmChanged
          /\ resumeOffset' = s.resumeOffset
          /\ expectFirst' = s.expectFirst
     ELSE UNCHANGED <<haltedActivity, prevTick, passTicks, pass,
                      hasPrev, afterStart, bpmChanged, resumeOffset,
                      expectFirst>>
  /\ IF focus = "observers"
     THEN /\ invoked' = s.invoked
          /\ staleInvoked' = s.staleInvoked
          /\ goneInvoked' = s.goneInvoked
          /\ missed' = s.missed
     ELSE UNCHANGED <<invoked, staleInvoked, goneInvoked, missed>>

Commit(s) == CommitAs("entry", <<>>, s)

\* ---------------------------------------------------------------------------
\* Accessors and pure helpers of the class
\* ---------------------------------------------------------------------------
\* get state
State(s) ==
  [isPlaying |-> s.isPlaying, pulse |-> s.pulse, meter |-> s.meter,
   bpm |-> s.bpm, accents |-> s.accents]

\* Variant of createDefaultAccents: every beat accented.
CreateAllAccents(m) == [i \in 1..m |-> TRUE]

createDefaultAccents(m) == [i \in 1..m |-> i = 1]

\* 60 / bpm seconds, in time units
calculateInterval(s) == (60 * TicksPerSecond) \div s.bpm

\* Math.max(minBpm, Math.min(maxBpm, value))
Clamp(value) == Max(minBpm, Min(maxBpm, value))

\* Variant of AccentAt: a pulse beyond the mask takes the mask's last entry.
AccentAtLast(s) ==
  IF s.accents = <<>> THEN FALSE
  ELSE s.accents[Max(1, Min(s.pulse, Len(s.accents)))]

\* this._accents[this._pulse - 1] ?? false
AccentAt(s) ==
  IF s.pulse \in 1..Len(s.accents) THEN s.accents[s.pulse] ELSE FALSE

Registry(s, k) == IF k = "tick" THEN s.tickCallbacks ELSE s.stateChangeCallbacks

\* The array object a for-of loop holds: generation gen is the live registry
\* when no dispose() replaced it since, else the replaced array.
ArrayOf(s, k, gen) ==
  IF k = "tick"
  THEN IF gen = Len(s.oldTick) + 1 THEN s.tickCallbacks ELSE s.oldTick[gen]
  ELSE IF gen = Len(s.oldState) + 1 THEN s.stateChangeCallbacks
       ELSE s.oldState[gen]

Generation(s, k) ==
  IF k = "tick" THEN Len(s.oldTick) + 1 ELSE Len(s.oldState) + 1

\* The subscriptions of callback cb to registry k, as indexes of unsubscribers.
SubsOf(s, k, cb) ==
  {i \in 1..Len(s.unsubscribers) :
     s.unsubscribers[i].kind = k /\ s.unsubscribers[i].cb = cb}

\* Callbacks of registry k every subscription of which has been cancelled by
\* its own unsubscribe function.
Unsubscribed(s, k) ==
  {cb \in Callbacks :
     /\ SubsOf(s, k, cb) # {}
     /\ \A i \in SubsOf(s, k, cb) : s.unsubscribers[i].called}

\* Callbacks of registry k every subscription of which was made before a
\* dispose() that has returned.
Disposed(s, k) ==
  {cb \in Callbacks :
     /\ SubsOf(s, k, cb) # {}
     /\ \A i \in SubsOf(s, k, cb) : s.unsubscribers[i].disposed}

\* What a notification pass knows when it begins.
PassCtx(s, k) == [stale |-> Unsubscribed(s, k), gone |-> Disposed(s, k)]

\* The callbacks that registry k held when a notification pass began (state
\* s0) and still holds when it ends (state s1), and that the pass did not
\* call.
Skipped(s0, s1, k) ==
  LET before == {Registry(s0, k)[i] : i \in 1..Len(Registry(s0, k))}
      after == {Registry(s1, k)[i] : i \in 1..Len(Registry(s1, k))}
      called == {s1.calls[i] : i \in (Len(s0.calls) + 1)..Len(s1.calls)}
  IN  IF Generation(s1, k) # Generation(s0, k) THEN {}
      ELSE {<<k, cb>> : cb \in {c \in before \cap after : <<k, c>> \notin called}}

\* The smallest timer id not in use.
NewTimerId(s) ==
  CHOOSE i \in 1..(Cardinality(s.timers) + 2) :
    /\ i \notin s.timers \cup {s.scheduleIntervalId}
    /\ \A j \in 1..(i - 1) : j \in s.timers \cup {s.scheduleIntervalId}

\* ---------------------------------------------------------------------------
\* Methods, as operators on the object
\* ---------------------------------------------------------------------------
RECURSIVE stop(_), dispose(_), notifyStateChange(_), Iterate(_, _, _, _, _),
          Invoke(_, _, _, _), UnsubscribeOwn(_, _, _)

\* The function returned by onStateChange / onTick, for subscription i.
unsubscribe(s, i) ==
  LET u == s.unsubscribers[i]
      arr == Registry(s, u.kind)
      index == IndexOf(arr, u.cb)
      s1 == [s EXCEPT !.unsubscribers[i].called = TRUE]
  IN  IF index > 0
      THEN IF u.kind = "tick"
           THEN [s1 EXCEPT !.tickCallbacks = Splice(arr, index)]
           ELSE [s1 EXCEPT !.stateChangeCallbacks = Splice(arr, index)]
      ELSE s1

\* Callback "once" of registry k calls each unsubscribe function it holds.
UnsubscribeOwn(s, k, i) ==
  IF i > Len(s.unsubscribers) THEN s
  ELSE IF s.unsubscribers[i].kind = k /\ s.unsubscribers[i].cb = "once"
       THEN UnsubscribeOwn(unsubscribe(s, i), k, i + 1)
       ELSE UnsubscribeOwn(s, k, i + 1)

cleanupAudioNodes(s) == [s EXCEPT !.oscillator = FALSE, !.gainNode = FALSE]

\* The history of one observer call.
Called(s, k, cb, ctx) ==
  [s EXCEPT
     !.calls = Append(@, <<k, cb>>),
     !.invoked = @ \cup {<<k, cb>>},
     !.staleInvoked = IF cb \in ctx.stale THEN @ \cup {<<k, cb>>} ELSE @,
     !.goneInvoked = IF cb \in ctx.gone THEN @ \cup {<<k, cb>>} ELSE @,
     !.haltedActivity =
        IF k = "tick" /\ s.halted THEN @ \cup {"observer"} ELSE @]

\* bpm.value = v : a write of another value queues the watcher's job.
WriteBpmRef(s, v) ==
  [s EXCEPT !.bpmRef = v, !.bpmWatcherQueued = @ \/ v # s.bpmRef]

\* The callback of useMetronome, index.ts lines 107-120, for the refs the
\* model keeps: state.value = newState, and bpm.value = newState.bpm unless
\* the change came from the ref.
VueOnStateChange(s) ==
  IF s.bpmRef # s.snapshot.bpm /\ ~s.bpmSyncPending
  THEN [WriteBpmRef([s EXCEPT !.stateRef = s.snapshot,
                              !.isUpdatingFromCore = TRUE],
                    s.snapshot.bpm)
          EXCEPT !.isUpdatingFromCore = FALSE]
  ELSE [s EXCEPT !.stateRef = s.snapshot]

\* What the observer does when it is called.
React(s, k, cb) ==
  CASE cb = "obs" -> s
    [] cb = "vue" -> VueOnStateChange(s)
    [] cb = "once" -> UnsubscribeOwn(s, k, 1)
    [] cb = "stopper" -> stop(s)
    [] cb = "disposer" -> dispose(s)

\* callback(...) : the call of one observer.
Invoke(s, k, cb, ctx) == React(Called(s, k, cb, ctx), k, cb)

\* for (const callback of <array>) callback(...) : the iterator re-reads the
\* array's length and element at every step.
Iterate(s, k, gen, idx, ctx) ==
  IF idx > Len(ArrayOf(s, k, gen)) THEN s
  ELSE Iterate(Invoke(s, k, ArrayOf(s, k, gen)[idx], ctx), k, gen, idx + 1, ctx)

\* The history of one notification pass, from state s0 to state s1.
EndPass(s0, s1, k) == [s1 EXCEPT !.missed = @ \cup Skipped(s0, s1, k)]

\* One more call of notifyStateChange().
Noted(s) == [s EXCEPT !.notes = @ + 1]

\* const state = this.state
Snapshot(s) == [s EXCEPT !.snapshot = State(s)]

\* The pass returns to its caller, which may be a callback of an outer pass
\* that holds its own state object.
EndSnapshot(s0, s1) == [s1 EXCEPT !.snapshot = s0.snapshot]

NotifyPass(s) ==
  EndPass(s,
          Iterate(s, "state", Generation(s, "state"), 1, PassCtx(s, "state")),
          "state")

notifyStateChange(s) == Noted(EndSnapshot(s, NotifyPass(Snapshot(s))))

\* stop(), lines 192-204: the flags, the saved offset, the cleared timer.
StopFields(s) ==
  [s EXCEPT
     !.isPlaying = FALSE,
     !.pulse = 0,
     !.timeOffset =
        IF s.audioContext # "null" THEN s.nextTickTime - s.now ELSE @,
     !.timers =
        IF s.scheduleIntervalId # 0 THEN @ \ {s.scheduleIntervalId} ELSE @,
     !.scheduleIntervalId = 0,
     \* history
     !.resumeOffset =
        IF s.audioContext # "null" THEN <<s.nextTickTime - s.now>> ELSE <<>>,
     !.expectFirst = <<>>,
     !.hasPrev = FALSE,
     !.prevTick = <<>>,
     !.bpmChanged = FALSE,
     !.afterStart = FALSE,
     !.pass = IF @ = <<>> THEN @ ELSE <<[@[1] EXCEPT !.interrupted = TRUE]>>]

\* stop() or dispose() returns.
Returned(s) == [s EXCEPT !.halted = TRUE]

\* Variant of stop: without the guard of line 190.
StopUnguarded(s) ==
  Returned(notifyStateChange(cleanupAudioNodes(StopFields(s))))

stop(s) ==
  IF ~s.isPlaying THEN Returned(s)
  ELSE Returned(notifyStateChange(cleanupAudioNodes(StopFields(s))))

\* Variant of NewRegistries: the state-change registry is not replaced.
NewTickRegistry(s) ==
  [s EXCEPT
     !.oldTick = Append(@, s.tickCallbacks),
     !.tickCallbacks = <<>>,
     !.unsubscribers = [i \in 1..Len(@) |-> [@[i] EXCEPT !.disposed = TRUE]]]

\* this.stateChangeCallbacks = [] ; this.tickCallbacks = [] : the arrays a
\* running for-of loop holds stay as they are.
NewRegistries(s) ==
  [s EXCEPT
     !.oldState = Append(@, s.stateChangeCallbacks),
     !.stateChangeCallbacks = <<>>,
     !.oldTick = Append(@, s.tickCallbacks),
     !.tickCallbacks = <<>>,
     !.unsubscribers = [i \in 1..Len(@) |-> [@[i] EXCEPT !.disposed = TRUE]]]

\* if (this.audioContext) { this.audioContext.close(); ... = null } : a
\* resume() still pending on the closed context settles without running it.
CloseContext(s) ==
  IF s.audioContext # "null"
  THEN [s EXCEPT
          !.audioContext = "null",
          !.now = 0,
          !.pendingStarts =
             [i \in 1..Len(@) |->
                [@[i] EXCEPT !.closed = (@ \/ s.pendingStarts[i].await = "resume")]]]
  ELSE s

dispose(s) == Returned(CloseContext(NewRegistries(stop(s))))

createOscillator(s) ==
  IF s.audioContext = "null" \/ s.oscillator THEN s
  ELSE [s EXCEPT !.oscillator = TRUE, !.gainNode = TRUE]

\* playTick, lines 318-335: the rendering request handed to the audio engine.
Render(s, time) ==
  IF ~s.oscillator \/ ~s.gainNode THEN s
  ELSE [s EXCEPT
          !.sink = <<[time |-> time,
                      frequency |-> IF AccentAt(s) THEN accentFrequency
                                    ELSE normalFrequency,
                      isAccented |-> AccentAt(s)]>>,
          !.haltedActivity = IF s.halted THEN @ \cup {"sink"} ELSE @]

playTick(s, time) ==
  IF s.audioContext = "null" THEN s
  ELSE Render(IF ~s.oscillator THEN createOscillator(s) ELSE s, time)

\* Variant of AdvancePulse: the wrap tests > instead of >=.
AdvancePulseLate(s) == IF s.pulse > s.meter THEN 1 ELSE s.pulse + 1

\* if (this._pulse >= this._meter) this._pulse = 1 else this._pulse += 1
AdvancePulse(s) == IF s.pulse >= s.meter THEN 1 ELSE s.pulse + 1

\* The history of one tick: what was submitted, and in which circumstances.
TickEvent(s, time) ==
  [tick |-> [time |-> time, pulse |-> s.pulse, meter |-> s.meter],
   prev |-> s.prevTick, bpm |-> s.bpm, running |-> s.isPlaying,
   sink |-> s.sink, isAccented |-> AccentAt(s), first |-> s.afterStart,
   expect |-> s.expectFirst, hasPrev |-> s.hasPrev, bpmSame |-> ~s.bpmChanged]

Submitted(s, time) ==
  [s EXCEPT
     !.passTicks = Append(@, TickEvent(s, time)),
     !.prevTick =
        IF s.isPlaying
        THEN <<[time |-> time, pulse |-> s.pulse, meter |-> s.meter]>> ELSE @,
     !.afterStart = FALSE,
     !.expectFirst = <<>>,
     !.hasPrev = IF s.isPlaying THEN TRUE ELSE @,
     !.bpmChanged = FALSE]

\* for (const callback of this.tickCallbacks) callback(pulse, isAccented, time)
notifyTick(s) ==
  EndPass(s,
          Iterate(s, "tick", Generation(s, "tick"), 1, PassCtx(s, "tick")),
          "tick")

tick(s, time) ==
  notifyStateChange(
    notifyTick(
      Submitted(
        playTick([s EXCEPT !.pulse = AdvancePulse(s), !.sink = <<>>], time),
        time)))

\* The body of the while loop after this.tick(tickTime), lines 353-355.
NextTick(s, tickTime) ==
  [s EXCEPT !.nextTickTime = @ + calculateInterval(s),
            !.lastTickTime = tickTime]

\* Variant of ScheduleWhile: an if in place of the while, one tick per pass.
ScheduleOnce(s, currentTime) ==
  IF s.nextTickTime < currentTime + scheduleAheadTime
  THEN NextTick(tick(s, s.nextTickTime), s.nextTickTime)
  ELSE s

RECURSIVE ScheduleWhile(_, _)
\* while (this.nextTickTime < currentTime + this.scheduleAheadTime) { ... }
ScheduleWhile(s, currentTime) ==
  IF s.nextTickTime < currentTime + scheduleAheadTime
  THEN ScheduleWhile(NextTick(tick(s, s.nextTickTime), s.nextTickTime),
                     currentTime)
  ELSE s

\* The history of a poll pass that begins.
BeginPass(s) ==
  [s EXCEPT
     !.pass = <<[now |-> s.now, next0 |-> s.nextTickTime,
                 interrupted |-> FALSE]>>]

\* this.scheduleIntervalId = setTimeout(() => this.scheduleLoop(), ...) : the
\* delay is a lower bound on when the callback runs; the timer is pending from
\* here until TimerFire takes it.
Rearm(s) ==
  [s EXCEPT
     !.scheduleIntervalId = NewTimerId(s),
     !.timers = @ \cup {NewTimerId(s)},
     !.haltedActivity = IF s.halted THEN @ \cup {"rearm"} ELSE @]

scheduleLoop(s) ==
  IF ~s.isPlaying \/ s.audioContext = "null" THEN s
  ELSE Rearm(ScheduleWhile(BeginPass(s), s.now))

\* new AudioContext() when there is none; initial is the state the new context
\* starts in.
CreateContext(s, initial) ==
  IF s.audioContext = "null"
  THEN [s EXCEPT !.audioContext = initial, !.now = 0]
  ELSE s

\* Variant of Suspend: the flags of lines 178-179 are written before the
\* await.
SuspendPlaying(s) ==
  [s EXCEPT
     !.isPlaying = TRUE,
     !.pulse = 0,
     !.pendingStarts =
        Append(@, [await |-> IF s.audioContext = "suspended" THEN "resume"
                             ELSE "init",
                   closed |-> FALSE,
                   via |-> IF s.via = "" THEN "start" ELSE s.via]),
     !.outcome = "suspended"]

\* await this.initAudioContext() : the call is suspended, on resume() when the
\* context is suspended; via is the public method the caller awaits.
Suspend(s) ==
  [s EXCEPT
     !.pendingStarts =
        Append(@, [await |-> IF s.audioContext = "suspended" THEN "resume"
                             ELSE "init",
                   closed |-> FALSE,
                   via |-> IF s.via = "" THEN "start" ELSE s.via]),
     !.outcome = "suspended"]

\* new AudioContext() throws: initAudioContext rejects before it assigned
\* this.audioContext, and start() rejects with it.
AcquireFailed(s, initial) == s.audioContext = "null" /\ initial = "failed"

\* start(), up to its await: the guard and the synchronous part of
\* initAudioContext.
startCall(s, initial) ==
  IF s.isPlaying THEN [s EXCEPT !.halted = FALSE]
  ELSE IF AcquireFailed(s, initial)
       THEN [s EXCEPT !.halted = FALSE, !.outcome = "rejected"]
       ELSE Suspend(CreateContext([s EXCEPT !.halted = FALSE], initial))

\* Variant of ResumeTime: the phase restarts at the clock, timeOffset unused.
ResumeTimeReset(s) == s.now

\* this.audioContext!.currentTime + this.timeOffset
ResumeTime(s) == s.now + s.timeOffset

\* start(), lines 178-179
StartFlags(s) ==
  [s EXCEPT
     !.isPlaying = TRUE,
     !.pulse = 0,
     !.hasPrev = IF s.isPlaying THEN @ ELSE FALSE,
     !.halted = FALSE]

\* start(), line 180
StartPhase(s) ==
  [s EXCEPT
     !.nextTickTime = ResumeTime(s),
     !.afterStart = TRUE,
     !.expectFirst =
        IF s.resumeOffset = <<>> THEN <<>>
        ELSE <<s.now + s.resumeOffset[1], s.resumeOffset[1]>>,
     !.resumeOffset = <<>>]

\* start(), lines 180-183: reading currentTime of a null context throws, and
\* the call rejects with the flags of lines 178-179 already written.
StartRun(s) ==
  IF s.audioContext = "null" THEN [s EXCEPT !.outcome = "rejected"]
  ELSE notifyStateChange(scheduleLoop(StartPhase(s)))

\* start(), after its await.
startResume(s) == StartRun(StartFlags(s))

\* Variant of set bpm: the write also re-plans the next tick, one new
\* interval from the clock.
SetBpmRephase(s, value) ==
  notifyStateChange(
    [s EXCEPT !.bpm = Clamp(value),
              !.nextTickTime = s.now + (60 * TicksPerSecond) \div Clamp(value)])

\* set bpm
setBpm(s, value) ==
  LET v == Clamp(value)
  IN  notifyStateChange(
        [s EXCEPT !.bpm = v,
                  !.bpmChanged = @ \/ (s.hasPrev /\ v # s.bpm),
                  !.resumeOffset = IF v # s.bpm THEN <<>> ELSE @])

\* set meter
setMeterValue(s, value) ==
  IF value < 1 THEN s
  ELSE notifyStateChange(
         [s EXCEPT !.meter = value,
                   !.accents = createDefaultAccents(value),
                   !.sharesCaller = FALSE,
                   !.resumeOffset = IF value # s.meter THEN <<>> ELSE @])

\* set accents: this._accents = [...value], a copy of the caller's array
setAccents(s, value) ==
  notifyStateChange(
    [s EXCEPT !.accents = value, !.callerArray = value,
              !.sharesCaller = FALSE])

increaseBpm(s, amount) == setBpm(s, s.bpm + amount)

decreaseBpm(s, amount) == setBpm(s, s.bpm - amount)

\* Variant of setMeter: without the guard of line 140.
SetMeterUnguarded(s, m, accentsOpt) ==
  notifyStateChange(
    [s EXCEPT !.meter = m,
              !.accents = Nullish(accentsOpt, createDefaultAccents(m))])

setMeter(s, m, accentsOpt) ==
  IF m < 1 THEN s
  ELSE notifyStateChange(
         [s EXCEPT !.meter = m,
                   !.accents = Nullish(accentsOpt, createDefaultAccents(m)),
                   !.callerArray = Nullish(accentsOpt, @),
                   !.sharesCaller = accentsOpt # <<>>,
                   !.resumeOffset = IF m # s.meter THEN <<>> ELSE @])

toggleAccent(s, beatIndex) ==
  IF beatIndex >= 0 /\ beatIndex < Len(s.accents)
  THEN notifyStateChange(
         [s EXCEPT !.accents[beatIndex + 1] = ~s.accents[beatIndex + 1]])
  ELSE s

setAccent(s, beatIndex, value) ==
  IF beatIndex >= 0 /\ beatIndex < Len(s.accents)
  THEN notifyStateChange([s EXCEPT !.accents[beatIndex + 1] = value])
  ELSE s

\* Variant of toggle: start() whatever isPlaying is.
ToggleStart(s, initial) ==
  startCall([s EXCEPT !.via = IF @ = "" THEN "toggle" ELSE @], initial)

toggle(s, initial) ==
  IF s.isPlaying THEN stop(s)
  ELSE startCall([s EXCEPT !.via = IF @ = "" THEN "toggle" ELSE @], initial)

handle(s, newBpmOpt, initial) ==
  LET s1 == IF newBpmOpt # <<>>
            THEN [s EXCEPT !.bpm = Clamp(newBpmOpt[1]),
                           !.bpmChanged =
                              @ \/ (s.hasPrev /\ Clamp(newBpmOpt[1]) # s.bpm),
                           !.resumeOffset =
                              IF Clamp(newBpmOpt[1]) # s.bpm THEN <<>> ELSE @]
            ELSE s
  IN  toggle([s1 EXCEPT !.via = "handle"], initial)

\* useMetronome: syncBpmToCore, index.ts lines 123-129
syncBpmToCore(s) ==
  IF ~s.bpmSyncPending /\ ~s.isUpdatingFromCore /\ s.bpmRef # s.bpm
  THEN [setBpm([s EXCEPT !.bpmSyncPending = TRUE], s.bpmRef)
          EXCEPT !.bpmSyncPending = FALSE]
  ELSE s

\* useMetronome: start, toggle, handle, increaseBpm, decreaseBpm
vueStart(s, initial) == startCall(syncBpmToCore(s), initial)

vueToggle(s, initial) == toggle(syncBpmToCore(s), initial)

vueHandle(s, newBpmOpt, initial) ==
  handle(syncBpmToCore(IF newBpmOpt # <<>> THEN WriteBpmRef(s, newBpmOpt[1])
                       ELSE s),
         <<>>, initial)

CopyBpm(s) == WriteBpmRef(s, s.bpm)

vueIncreaseBpm(s, amount) == CopyBpm(increaseBpm(s, amount))

vueDecreaseBpm(s, amount) == CopyBpm(decreaseBpm(s, amount))

\* The queued job of watch(bpm, () => syncBpmToCore()) runs: the callback is
\* called when the value differs from the one the watcher saw last.
WatcherJob(s) ==
  [(IF s.bpmRef # s.bpmWatched THEN syncBpmToCore(s) ELSE s)
     EXCEPT !.bpmWatched = s.bpmRef, !.bpmWatcherQueued = FALSE]

\* onStateChange / onTick
subscribe(s, k, cb) ==
  LET s1 == [s EXCEPT
               !.unsubscribers =
                  Append(@, [kind |-> k, cb |-> cb, called |-> FALSE,
                             disposed |-> FALSE])]
  IN  IF k = "tick"
      THEN [s1 EXCEPT !.tickCallbacks = Append(@, cb)]
      ELSE [s1 EXCEPT !.stateChangeCallbacks = Append(@, cb)]

\* get accents: the caller is handed [...this._accents]
getAccents(s) ==
  [s EXCEPT !.callerArray = s.accents, !.sharesCaller = FALSE]

\* get state: the caller is handed the accents array of the snapshot
getStateAccents(s) ==
  [s EXCEPT !.callerArray = State(s).accents, !.sharesCaller = FALSE]

\* The caller writes entry i of the array it holds: array[i] = value.  The
\* write lands in _accents when that is the same array object.
callerWrite(s, i, value) ==
  IF s.sharesCaller
  THEN [s EXCEPT !.callerArray[i] = value, !.accents[i] = value]
  ELSE [s EXCEPT !.callerArray[i] = value]

\* constructor
Construct(config) ==
  LET m == Nullish(config.meter, DefaultMeter)
  IN  [bpm |-> Nullish(config.bpm, DefaultBpm),
       meter |-> m,
       accents |-> Nullish(config.accents, createDefaultAccents(m))]

\* ---------------------------------------------------------------------------
\* Initial states: the object a constructor call returns
\* ---------------------------------------------------------------------------
InitOf(config, kept, composable) ==
  /\ focus = kept
  /\ audioContext = "null"
  /\ oscillator = FALSE
  /\ gainNode = FALSE
  /\ nextTickTime = 0
  /\ lastTickTime = 0
  /\ timeOffset = 0
  /\ scheduleIntervalId = 0
  /\ isPlaying = FALSE
  /\ pulse = 0
  /\ meter = Construct(config).meter
  /\ bpm = Construct(config).bpm
  /\ accents = Construct(config).accents
  /\ stateChangeCallbacks = IF composable THEN <<"vue">> ELSE <<>>
  /\ tickCallbacks = <<>>
  /\ bpmRef = IF composable THEN Construct(config).bpm ELSE 0
  /\ stateRef =
       IF composable
       THEN [isPlaying |-> FALSE, pulse |-> 0,
             meter |-> Construct(config).meter, bpm |-> Construct(config).bpm,
             accents |-> Construct(config).accents]
       ELSE <<>>
  /\ bpmWatched = bpmRef
  /\ bpmWatcherQueued = FALSE
  /\ now = 0
  /\ timers = {}
  /\ pendingStarts = <<>>
  /\ unsubscribers =
       IF composable
       THEN <<[kind |-> "state", cb |-> "vue", called |-> FALSE,
               disposed |-> FALSE]>>
       ELSE <<>>
  /\ callerArray = IF kept = "storage" THEN Nullish(config.accents, <<>>)
                   ELSE <<>>
  /\ sharesCaller = (kept = "storage" /\ config.accents # <<>>)
  /\ haltedActivity = {}
  /\ prevTick = <<>>
  /\ passTicks = <<>>
  /\ pass = <<>>
  /\ hasPrev = FALSE
  /\ afterStart = FALSE
  /\ bpmChanged = FALSE
  /\ resumeOffset = <<>>
  /\ expectFirst = <<>>
  /\ invoked = {}
  /\ staleInvoked = {}
  /\ goneInvoked = {}
  /\ missed = {}
  /\ op = NoOp

\* new MetronomeCore(config)
InitWith(config, kept) == InitOf(config, kept, FALSE)

\* new MetronomeCore()
DefaultConfig == [bpm |-> <<>>, meter |-> <<>>, accents |-> <<>>]

\* new MetronomeCore(config), for the configurations the model draws
ConfigBpms == {<<>>, <<20>>, <<150>>, <<600>>}
ConfigMeters == {<<>>, <<2>>}
ConfigAccents == {<<>>} \cup {<<a>> : a \in BoolSeqs(MaxAccents)}
Configs ==
  [bpm : ConfigBpms, meter : ConfigMeters, accents : ConfigAccents]

Init == InitWith(DefaultConfig, "transport")

InitConfigured == \E config \in Configs : InitWith(config, "transport")

InitObservers == InitWith(DefaultConfig, "observers")

InitCalls == InitWith(DefaultConfig, "calls")

\* new MetronomeCore({accents}) and new MetronomeCore(), the caller keeping
\* the array it passed
AccentConfigs ==
  [bpm : {<<>>}, meter : {<<>>}, accents : ConfigAccents]

InitStorage == \E config \in AccentConfigs : InitWith(config, "storage")

\* useMetronome()
InitVue == InitOf(DefaultConfig, "refs", TRUE)

\* ---------------------------------------------------------------------------
\* Actions: one per entry from the event loop
\* ---------------------------------------------------------------------------
ContextStates == {"suspended", "running"}

\* A start() may be issued while the calls suspended at their await and the
\* timers already pending stay within MaxTimers: every suspended call can arm
\* one more timer.
MayStart == Len(pendingStarts) + Cardinality(timers) < MaxTimers

Start(initials) ==
  /\ MayStart
  /\ \E initial \in initials :
       CommitAs("start", <<initial>>, startCall(Enter, initial))

\* The await of pending start() call i is fulfilled: resume() of a suspended
\* context has made it run.
StartResume ==
  \E i \in 1..Len(pendingStarts) :
    LET p == pendingStarts[i]
        s1 == [Enter EXCEPT
                 !.pendingStarts = Splice(@, i),
                 !.via = p.via,
                 !.audioContext =
                    IF p.await = "resume" /\ ~p.closed /\ @ = "suspended"
                    THEN "running" ELSE @]
    IN  CommitAs("startResume", <<>>, startResume(s1))

\* The await of pending start() call i is rejected: resume() failed.
StartReject ==
  \E i \in 1..Len(pendingStarts) :
    /\ pendingStarts[i].await = "resume"
    /\ CommitAs("startReject", <<>>,
                [Enter EXCEPT !.pendingStarts = Splice(@, i),
                              !.via = pendingStarts[i].via,
                              !.outcome = "rejected"])

Stop == CommitAs("stop", <<>>, stop(Enter))

Toggle(initials) ==
  /\ isPlaying \/ MayStart
  /\ \E initial \in initials :
       CommitAs("toggle", <<initial>>, toggle(Enter, initial))

Handle(values, initials) ==
  /\ isPlaying \/ MayStart
  /\ \E initial \in initials, newBpm \in {<<>>} \cup {<<v>> : v \in values} :
       CommitAs("handle", <<newBpm, initial>>, handle(Enter, newBpm, initial))

Dispose == CommitAs("dispose", <<>>, dispose(Enter))

SetBpm(values) ==
  \E v \in values : CommitAs("setBpm", <<v>>, setBpm(Enter, v))

IncreaseBpm(amounts) ==
  \E amount \in amounts :
    CommitAs("increaseBpm", <<amount>>, increaseBpm(Enter, amount))

DecreaseBpm(amounts) ==
  \E amount \in amounts :
    CommitAs("decreaseBpm", <<amount>>, decreaseBpm(Enter, amount))

SetMeterValue(values) ==
  \E v \in values : CommitAs("meter", <<v>>, setMeterValue(Enter, v))

SetAccents ==
  \E a \in BoolSeqs(MaxAccents) :
    CommitAs("accents", <<a>>, setAccents(Enter, a))

SetMeter(values, masks) ==
  \E m \in values, a \in {<<>>} \cup {<<x>> : x \in masks} :
    CommitAs("setMeter", <<m, a>>, setMeter(Enter, m, a))

ToggleAccent ==
  \E i \in BeatIndexes :
    CommitAs("toggleAccent", <<i>>, toggleAccent(Enter, i))

SetAccent ==
  \E i \in BeatIndexes, v \in BOOLEAN :
    CommitAs("setAccent", <<i, v>>, setAccent(Enter, i, v))

OnTick(cbs, limit) ==
  /\ Len(unsubscribers) < limit
  /\ \E cb \in cbs : Commit(subscribe(Enter, "tick", cb))

OnStateChange(cbs, limit) ==
  /\ Len(unsubscribers) < limit
  /\ \E cb \in cbs : Commit(subscribe(Enter, "state", cb))

Unsubscribe ==
  \E i \in 1..Len(unsubscribers) : Commit(unsubscribe(Enter, i))

\* A write of the bpm ref by the component, e.g. through v-model.
BpmRefWrite(values) ==
  \E v \in values : CommitAs("bpm.value", <<v>>, WriteBpmRef(Enter, v))

GetAccents == CommitAs("get accents", <<>>, getAccents(Enter))

GetState == CommitAs("get state", <<>>, getStateAccents(Enter))

CallerWrite ==
  \E i \in 1..Len(callerArray), v \in BOOLEAN :
    CommitAs("callerWrite", <<i, v>>, callerWrite(Enter, i, v))

BpmWatcherRun ==
  /\ bpmWatcherQueued
  /\ CommitAs("watcher", <<>>, WatcherJob(Enter))

VueStart(initials) ==
  /\ MayStart
  /\ \E initial \in initials :
       CommitAs("start", <<initial>>, vueStart(Enter, initial))

VueToggle(initials) ==
  /\ isPlaying \/ MayStart
  /\ \E initial \in initials :
       CommitAs("toggle", <<initial>>, vueToggle(Enter, initial))

VueHandle(values, initials) ==
  /\ isPlaying \/ MayStart
  /\ \E initial \in initials, newBpm \in {<<>>} \cup {<<v>> : v \in values} :
       CommitAs("handle", <<newBpm, initial>>,
                vueHandle(Enter, newBpm, initial))

VueIncreaseBpm(amounts) ==
  \E amount \in amounts :
    CommitAs("increaseBpm", <<amount>>, vueIncreaseBpm(Enter, amount))

VueDecreaseBpm(amounts) ==
  \E amount \in amounts :
    CommitAs("decreaseBpm", <<amount>>, vueDecreaseBpm(Enter, amount))

\* A pending setTimeout callback runs: () => this.scheduleLoop()
TimerFire ==
  \E id \in timers :
    CommitAs("timer", <<>>, scheduleLoop([Enter EXCEPT !.timers = @ \ {id}]))

\* The audio clock of a running context moves on.
AdvanceClock ==
  /\ audioContext = "running"
  /\ \E d \in ClockSteps :
       /\ now + d <= MaxTime
       /\ Commit([Enter EXCEPT !.now = @ + d])

\* ---------------------------------------------------------------------------
\* Specifications
\* ---------------------------------------------------------------------------
\* The transport and the poll loop of a default-constructed metronome, with
\* a tick observer that stops or a state observer that disposes when called.
Next ==
  \/ Start({"running"})
  \/ StartResume
  \/ Stop
  \/ Dispose
  \/ SetBpm({180})
  \/ SetMeterValue({0, 2})
  \/ OnTick({"stopper"}, MaxObservers)
  \/ OnStateChange({"disposer"}, MaxObservers)
  \/ TimerFire
  \/ AdvanceClock

Spec == Init /\ [][Next]_vars

\* Tempo, meter and accents of a metronome constructed from any configuration.
NextTempo ==
  \/ SetBpm(BpmInputs)
  \/ IncreaseBpm(BpmAmounts)
  \/ DecreaseBpm(BpmAmounts)
  \/ SetMeterValue(MeterInputs)
  \/ SetAccents
  \/ SetMeter(MeterInputs, BoolSeqs(MaxAccents))
  \/ ToggleAccent
  \/ SetAccent
  \/ Toggle(ContextStates)
  \/ Handle(BpmInputs, ContextStates)
  \/ StartReject

SpecTempo == InitConfigured /\ [][NextTempo]_vars

\* The observer registries: subscriptions, unsubscriptions and notification
\* passes, with observers that unsubscribe themselves or dispose when invoked.
ObserverCallbacks == {"obs", "once", "disposer"}

NextObservers ==
  \/ OnTick(ObserverCallbacks, MaxSubs)
  \/ OnStateChange(ObserverCallbacks, MaxSubs)
  \/ Unsubscribe
  \/ Dispose
  \/ SetBpm({DefaultBpm})
  \/ (pendingStarts = <<>> /\ Start({"running"}))
  \/ StartResume
  \/ Stop

SpecObservers == InitObservers /\ [][NextObservers]_vars

\* start(), stop() and dispose() one by one, each with the record of what it
\* changed; new AudioContext() and resume() may fail.
AcquireOutcomes == {"suspended", "running", "failed"}

NextCalls ==
  \/ Start(AcquireOutcomes)
  \/ StartResume
  \/ StartReject
  \/ Stop
  \/ Dispose
  \/ TimerFire
  \/ AdvanceClock

SpecCalls == InitCalls /\ [][NextCalls]_vars

\* toggle() and handle() one by one, each with the record of what it changed;
\* a tick observer may stop the metronome.
NextToggle ==
  \/ Toggle({"running"})
  \/ Handle({180, 400}, {"running"})
  \/ StartResume
  \/ OnTick({"stopper"}, MaxObservers)

SpecToggle == InitCalls /\ [][NextToggle]_vars

\* Tempo writes while the poll loop runs, each with the record of what it
\* changed; one start() at a time, no observers.
NextTempoRun ==
  \/ (pendingStarts = <<>> /\ Start({"running"}))
  \/ StartResume
  \/ Stop
  \/ SetBpm({180})
  \/ (bpm = DefaultBpm /\ IncreaseBpm({90}))
  \/ (bpm # DefaultBpm /\ DecreaseBpm({90}))
  \/ TimerFire
  \/ AdvanceClock

SpecTempoRun == InitCalls /\ [][NextTempoRun]_vars

\* Accent masks of any length up to MaxAccents written while the poll loop
\* runs, with a tick observer; one start() at a time.
NextAccents ==
  \/ (pendingStarts = <<>> /\ Start({"running"}))
  \/ StartResume
  \/ Stop
  \/ SetAccents
  \/ OnTick({"obs"}, MaxObservers)
  \/ TimerFire
  \/ AdvanceClock

SpecAccents == Init /\ [][NextAccents]_vars

\* The accent mask and the arrays the caller holds: arrays passed to the
\* constructor, to the accents setter and to setMeter, arrays handed out by
\* the accessors, and writes to either side.
NextStorage ==
  \/ GetAccents
  \/ GetState
  \/ CallerWrite
  \/ SetAccents
  \/ SetMeter({2}, BoolSeqs(MaxAccents))
  \/ ToggleAccent
  \/ SetAccent

SpecStorage == InitStorage /\ [][NextStorage]_vars

\* Meter and accent writes on a default-constructed metronome, each with the
\* record of what it changed.
NextMeter ==
  \/ SetMeterValue(MeterInputs)
  \/ SetMeter(MeterInputs, BoolSeqs(MaxAccents))
  \/ SetAccents
  \/ ToggleAccent
  \/ SetAccent

SpecMeter == InitCalls /\ [][NextMeter]_vars

\* The composable: writes of the bpm ref, the watcher, and the wrapped calls.
NextVue ==
  \/ BpmRefWrite(BpmInputs)
  \/ BpmWatcherRun
  \/ VueStart({"running"})
  \/ StartResume
  \/ VueToggle({"running"})
  \/ VueHandle(BpmInputs, {"running"})
  \/ VueIncreaseBpm(BpmAmounts)
  \/ VueDecreaseBpm(BpmAmounts)

SpecVue == InitVue /\ [][NextVue]_vars

\* ---------------------------------------------------------------------------
\* Properties
\* ---------------------------------------------------------------------------
\* The rendering requests and tick notifications of the latest entry.
Events == {passTicks[i] : i \in 1..Len(passTicks)}

\* 60 / bpm in time units, for the bpm an event was emitted at
IntervalAt(b) == (60 * TicksPerSecond) \div b

\* Number of targets next0, next0 + interval, ... below currentTime +
\* scheduleAheadTime.
DueCount(next0, currentTime, interval) ==
  IF next0 >= currentTime + scheduleAheadTime THEN 0
  ELSE ((currentTime + scheduleAheadTime - next0 - 1) \div interval) + 1

\* stop() or dispose() has returned and no start() was called since: only
\* stop() clears isPlaying, and a start() call either finds isPlaying set or
\* stays in pendingStarts until it completes.
Halted == ~isPlaying /\ pendingStarts = <<>>

\* C1: once stop() or dispose() has returned and until start() is called
\* again, no tick is handed to the sink or to a tick observer, and no
\* setTimeout of scheduleLoop is created or pending - also when stop() or
\* dispose() was called by an observer during a poll pass.
C1_QuietAfterStop ==
  /\ haltedActivity = {}
  /\ Halted => timers = {}

\* C2: within one Running period with bpm unchanged, every tick submitted
\* after another one has a target exactly 60/bpm after the previous target
\* (so no target is submitted twice and no beat is skipped), whatever
\* start() and toggle() calls interleave with the poll passes.
C2_IntervalLaw ==
  \A e \in Events :
    (e.running /\ e.hasPrev /\ e.bpmSame)
      => e.tick.time - e.prev[1].time = IntervalAt(e.bpm)

\* C3: a poll pass that runs at clock time now while Running, and during
\* which the metronome stays Running, emits exactly the k ticks due below
\* now + scheduleAheadTime: k notifications and k rendering requests, the
\* i-th for target next0 + (i - 1) * 60/bpm, in that order, and it leaves
\* nextTickTime >= now + scheduleAheadTime.
C3_AllDueTicks ==
  (pass # <<>> /\ ~pass[1].interrupted) =>
    LET p == pass[1]
        interval == calculateInterval(This)
        k == DueCount(p.next0, p.now, interval)
    IN  /\ Len(passTicks) = k
        /\ \A i \in 1..Len(passTicks) :
             /\ passTicks[i].tick.time = p.next0 + (i - 1) * interval
             /\ passTicks[i].sink # <<>>
             /\ passTicks[i].sink[1].time = passTicks[i].tick.time
        /\ \A i \in 1..(Len(passTicks) - 1) :
             passTicks[i].tick.time < passTicks[i + 1].tick.time
        /\ nextTickTime >= p.now + scheduleAheadTime

\* C3 witness: a pass that stayed Running emitted two or more ticks.
C3_Witness ==
  /\ pass # <<>>
  /\ ~pass[1].interrupted
  /\ Len(passTicks) >= 2
  /\ passTicks[1].tick.time < passTicks[2].tick.time

\* C4: when stop() ran at clock time T with nextTickTime = T + d and start()
\* next completes at clock time T' with no bpm or meter change in between,
\* the first tick submitted after that start has target T' + d.
C4_ResumeContinuity ==
  \A e \in Events :
    (e.first /\ e.expect # <<>>) => e.tick.time = e.expect[1]

\* C4 witness: the first tick after a resume at a later clock time, with a
\* non-zero d carried over from the stop.
C4_Witness ==
  \E e \in Events :
    /\ e.first
    /\ e.expect # <<>>
    /\ e.expect[2] # 0
    /\ e.expect[1] # e.expect[2]
    /\ e.tick.time = e.expect[1]

\* C5: whenever isPlaying is false, pulse is 0 - in every state between two
\* entries, stop() called by an observer during a poll pass included.
C5_PulseZeroWhenStopped == ~isPlaying => pulse = 0

\* C6: while Running with the meter fixed at m, the first tick after every
\* completed start() carries pulse 1 and every later tick carries the
\* previous pulse + 1, or 1 when the previous pulse was m.
C6_PulseCycle ==
  \A e \in Events :
    /\ (e.running /\ e.first) => e.tick.pulse = 1
    /\ (e.running /\ ~e.first /\ e.hasPrev /\ e.prev[1].meter = e.tick.meter)
         => e.tick.pulse = IF e.prev[1].pulse = e.tick.meter THEN 1
                           ELSE e.prev[1].pulse + 1

\* C6 witness: a tick that wraps from pulse m to pulse 1 while Running.
C6_Witness ==
  \E e \in Events :
    /\ e.running
    /\ ~e.first
    /\ e.hasPrev
    /\ e.prev[1].meter = e.tick.meter
    /\ e.prev[1].pulse = e.tick.meter
    /\ e.tick.pulse = 1

\* C7: the stored bpm is within [minBpm, maxBpm] in every state, from
\* construction with any configured bpm on.
C7_BpmInRange == minBpm <= bpm /\ bpm <= maxBpm

\* C8: the accent mask has exactly meter entries in every state, from
\* construction with or without configured accents on.
C8_AccentsMatchMeter == Len(accents) = meter

\* C9: a callback whose unsubscribe function has returned is not invoked by
\* any later notification pass, and every pass invokes the callbacks that
\* stay registered.
C9_UnsubscribeExact == staleInvoked = {} /\ missed = {}

\* C10: after dispose() has returned, no later mutator, tick, start or stop
\* invokes a callback that was registered before the dispose.
C10_QuietAfterDispose == goneInvoked = {}

\* C10 witness: a notification pass ran after a dispose(), over a registry
\* that held a callback before the dispose; it invoked the callback
\* registered since and not the earlier one.
C10_Witness ==
  \E k \in Kinds, i, j \in 1..Len(unsubscribers) :
    /\ unsubscribers[i].kind = k
    /\ unsubscribers[i].disposed
    /\ ~unsubscribers[i].called
    /\ unsubscribers[j].kind = k
    /\ ~unsubscribers[j].disposed
    /\ unsubscribers[j].cb # unsubscribers[i].cb
    /\ <<k, unsubscribers[j].cb>> \in invoked
    /\ <<k, unsubscribers[i].cb>> \notin invoked

\* The transport fields and the poll loop.
TransportFields ==
  {"isPlaying", "pulse", "nextTickTime", "timeOffset", "scheduleIntervalId",
   "timers"}

\* C11: when new AudioContext() or resume() fails inside start(), the call
\* rejects and neither its part before the await nor the failure changes
\* isPlaying, pulse, nextTickTime, timeOffset or the poll timers, and no
\* state-change notification is sent.
C11_FailedStartChangesNothing ==
  (\/ op.name = "startReject"
   \/ (op.name = "start" /\ op.outcome \in {"suspended", "rejected"}))
    => (op.changed \cap TransportFields = {} /\ op.notes = 0)

\* C11 witness: resume() of a suspended context was rejected for a start()
\* call, and the metronome is stopped.
C11_Witness ==
  /\ op.name = "startReject"
  /\ op.outcome = "rejected"
  /\ op.via = "start"
  /\ ~isPlaying
  /\ timers = {}

\* C12: start() called while isPlaying is true and stop() called while
\* isPlaying is false change no field of the object, arm no poll timer,
\* suspend nothing and send no notification.
C12_IdempotentStartStop ==
  (\/ (op.name = "start" /\ op.pre.isPlaying)
   \/ (op.name = "stop" /\ ~op.pre.isPlaying))
    => (op.changed = {} /\ op.notes = 0 /\ op.outcome = "ok")

\* C12 witness: start() was called on a metronome that is playing with its
\* poll timer pending.
C12_Witness ==
  /\ op.name = "start"
  /\ op.pre.isPlaying
  /\ isPlaying
  /\ scheduleIntervalId \in timers

\* The default mask of a meter: beat 1 accented, every other beat not.
IsDefaultMask(a, m) ==
  /\ Len(a) = m
  /\ \A i \in 1..m : a[i] = (i = 1)

\* C13: for m >= 1, setMeter(m) and meter = m leave meter = m with the
\* default mask of length m, setMeter(m, a) leaves meter = m with accents = a,
\* and each sends one state-change notification.
C13_SetMeterResult ==
  /\ (op.name = "meter" /\ op.arg[1] >= 1) =>
        (meter = op.arg[1] /\ IsDefaultMask(accents, meter) /\ op.notes = 1)
  /\ (op.name = "setMeter" /\ op.arg[1] >= 1) =>
        /\ meter = op.arg[1]
        /\ op.notes = 1
        /\ IF op.arg[2] = <<>> THEN IsDefaultMask(accents, meter)
           ELSE accents = op.arg[2][1]

\* C13 witness: setMeter(2) replaced another meter and mask by meter 2 and
\* the mask <<TRUE, FALSE>>.
C13_Witness ==
  /\ op.name = "setMeter"
  /\ op.arg = <<2, <<>>>>
  /\ op.pre.meter # 2
  /\ meter = 2
  /\ accents = <<TRUE, FALSE>>

\* C14: setMeter(m), setMeter(m, a) and meter = m with m < 1 change no field
\* of the object, raise no error and send no notification.
C14_InvalidMeterIgnored ==
  (op.name \in {"meter", "setMeter"} /\ op.arg[1] < 1)
    => (op.changed = {} /\ op.notes = 0 /\ op.outcome = "ok")

\* C14 witness: setMeter(0, a) was called with a mask and left the meter and
\* the accents as they were.
C14_Witness ==
  /\ op.name = "setMeter"
  /\ op.arg[1] = 0
  /\ op.arg[2] # <<>>
  /\ meter >= 1
  /\ accents # op.arg[2][1]

\* beatIndex i is a beat of meter m
InMeter(i, m) == 0 <= i /\ i < m

\* accents a1 is a0 with entry i (0-based) replaced by v
Replaced(a0, a1, i, v) ==
  /\ Len(a1) = Len(a0)
  /\ i + 1 \in 1..Len(a1)
  /\ a1[i + 1] = v
  /\ \A j \in 1..Len(a1) : j # i + 1 => a1[j] = a0[j]

\* C15: toggleAccent(i) and setAccent(i, v) with 0 <= i < meter negate, resp.
\* set, accents[i], leave the other entries and send one notification; with i
\* outside that range they change nothing and send none.  (Two toggles of the
\* same i in a row then restore the mask.)
C15_AccentBounds ==
  /\ op.name = "toggleAccent" =>
        IF InMeter(op.arg[1], op.pre.meter)
        THEN /\ op.arg[1] < Len(op.pre.accents)
             /\ Replaced(op.pre.accents, accents, op.arg[1],
                         ~op.pre.accents[op.arg[1] + 1])
             /\ op.notes = 1
        ELSE op.changed = {} /\ op.notes = 0
  /\ op.name = "setAccent" =>
        IF InMeter(op.arg[1], op.pre.meter)
        THEN /\ Replaced(op.pre.accents, accents, op.arg[1], op.arg[2])
             /\ op.notes = 1
        ELSE op.changed = {} /\ op.notes = 0

\* C16: dispose() raises no error from any state and returns with isPlaying
\* false, pulse 0, both registries empty, no poll timer pending and the audio
\* context released; called on a disposed metronome it changes nothing.
C16_DisposeSafe ==
  op.name = "dispose" =>
    /\ op.outcome = "ok"
    /\ ~isPlaying
    /\ pulse = 0
    /\ stateChangeCallbacks = <<>>
    /\ tickCallbacks = <<>>
    /\ timers = {}
    /\ audioContext = "null"
    /\ op.pre.disposed => (op.changed = {} /\ op.notes = 0)

\* Math.max(minBpm, Math.min(maxBpm, v)), case by case
Clamped(v) == IF v < minBpm THEN minBpm ELSE IF v > maxBpm THEN maxBpm ELSE v

\* A toggle() or handle() call that completed in the latest entry: at once
\* when it stopped, at the continuation of its start() otherwise.
ToggleCompleted ==
  /\ op.outcome = "ok"
  /\ \/ op.name \in {"toggle", "handle"}
     \/ (op.name = "startResume" /\ op.via \in {"toggle", "handle"})

\* isPlaying when the completed toggle() or handle() was invoked: a call that
\* went through start() found it false.
ToggleFound == IF op.name = "startResume" THEN FALSE ELSE op.pre.isPlaying

\* handle(v) stored clamp(v) as bpm before it toggled
HandleStored ==
  (op.name = "handle" /\ op.arg[1] # <<>>) => bpm = Clamped(op.arg[1][1])

\* C17: when toggle() or handle(v) completes, isPlaying is the negation of
\* its value when the call was invoked, also for a call issued before an
\* earlier one completed; handle(v) first stores clamp(v) as bpm.
C17_ToggleNegates ==
  /\ ToggleCompleted => isPlaying = ~ToggleFound
  /\ HandleStored

\* C17, amended: the same, for calls during which no observer called stop()
\* or dispose().
C17_ToggleNegatesUnlessStopped ==
  /\ (ToggleCompleted /\ (op.name = "startResume" => ~op.halted))
       => isPlaying = ~ToggleFound
  /\ HandleStored

\* C17 witness: a toggle() completed its start() with isPlaying true while a
\* second call, issued before the completion, is still suspended.
C17_Witness ==
  /\ op.name = "startResume"
  /\ op.via = "toggle"
  /\ op.outcome = "ok"
  /\ ~op.halted
  /\ isPlaying
  /\ \E i \in 1..Len(pendingStarts) : pendingStarts[i].via \in {"toggle", "handle"}

\* C18: once the watcher of the bpm ref has run, bpm.value equals core.bpm
\* and state.value.bpm, after any writes of the ref and any composable calls.
C18_BpmRefInSync ==
  ~bpmWatcherQueued => (bpmRef = bpm /\ stateRef.bpm = bpm)

\* C19: in every state 0 <= pulse <= meter, and every tick delivered to the
\* observers carries a pulse in 1..meter, whatever meter writes come between
\* the ticks.
C19_PulseWithinMeter ==
  /\ 0 <= pulse
  /\ pulse <= meter
  /\ \A e \in Events : e.tick.pulse \in 1..e.tick.meter

\* C20: a bpm write (set bpm, increaseBpm, decreaseBpm) changes no field but
\* bpm - nextTickTime, lastTickTime, timeOffset, pulse, isPlaying, meter,
\* accents and the poll timer stay - and the pass that schedules the next
\* ticks advances nextTickTime by 60 / bpm of the bpm it finds.
C20_BpmWriteFrame ==
  /\ op.name \in {"setBpm", "increaseBpm", "decreaseBpm"} =>
        op.changed \subseteq {"bpm"}
  /\ (op.name \in {"timer", "startResume"} /\ op.ticks # <<>>) =>
        /\ \A i \in 1..(Len(op.ticks) - 1) :
             op.ticks[i + 1] - op.ticks[i] = IntervalAt(bpm)
        /\ nextTickTime = op.ticks[Len(op.ticks)] + IntervalAt(bpm)

\* C20 witness: a write changed bpm while the metronome was playing with its
\* next tick planned and its poll timer pending.
C20_Witness ==
  /\ op.name \in {"setBpm", "increaseBpm", "decreaseBpm"}
  /\ op.changed = {"bpm"}
  /\ isPlaying
  /\ scheduleIntervalId \in timers
  /\ nextTickTime > now
  /\ nextTickTime # now + IntervalAt(bpm)

\* C21: the tone generator and the envelope are both live or both absent,
\* and whenever the transport is stopped - after any stop() or dispose(),
\* called from anywhere - neither is live.
C21_NoRenderHandleLeak ==
  /\ oscillator = gainNode
  /\ ~isPlaying => (~oscillator /\ ~gainNode)

\* C22: a notification pass calls every callback that is registered when the
\* pass starts and is still registered when it ends, as an iteration over a
\* snapshot of the registry would: no pass leaves such a callback uncalled.
C22_PassOverSnapshot ==
  \A k \in Kinds, cb \in Callbacks : <<k, cb>> \notin missed

\* The callbacks of the subscriptions to registry k that are in force, in
\* registration order: those whose unsubscribe function was never called and
\* that no dispose() cleared.
InForce(k) ==
  LET live == SelectSeq(unsubscribers,
                        LAMBDA u : u.kind = k /\ ~u.called /\ ~u.disposed)
  IN  [i \in 1..Len(live) |-> live[i].cb]

\* C23: an unsubscribe function removes exactly the subscription it was
\* returned for and a further call of it removes nothing - also when one
\* callback is registered more than once: each registry holds exactly the
\* callbacks of the subscriptions in force.
C23_UnsubscribeOwnOnly ==
  \A k \in Kinds : Registry(This, k) = InForce(k)

\* accents[pulse - 1] when that index exists, false otherwise, for the mask
\* the state holds
AccentOf(p) == IF p \in 1..Len(accents) THEN accents[p] ELSE FALSE

\* C24: for every tick, isAccented as passed to the tick observers is
\* accents[pulse - 1] when that index exists and false when the mask is
\* shorter than pulse; the sink is given the same isAccented, with
\* accentFrequency when it is true and normalFrequency otherwise.
C24_AccentLookup ==
  \A e \in Events :
    /\ e.isAccented = AccentOf(e.tick.pulse)
    /\ e.sink # <<>> =>
         /\ e.sink[1].isAccented = e.isAccented
         /\ e.sink[1].frequency =
              IF AccentOf(e.tick.pulse) THEN accentFrequency
              ELSE normalFrequency

\* C24 witness: a tick whose pulse lies beyond a non-empty accent mask was
\* submitted to the sink and passed to a tick observer.
C24_Witness ==
  \E e \in Events :
    /\ e.tick.pulse > Len(accents)
    /\ accents # <<>>
    /\ accents[Len(accents)]
    /\ e.sink # <<>>
    /\ tickCallbacks # <<>>

\* C25: the internal accent mask shares no storage with an array the caller
\* holds - passed to the constructor, the accents setter or setMeter, or
\* handed out by an accessor: a write the caller makes to its array leaves
\* every field of the scheduler as it was, and a toggleAccent / setAccent
\* that writes the mask does not write into the caller's array.
C25_MaskNotShared ==
  /\ op.name = "callerWrite" => op.changed = {}
  /\ (op.name \in {"toggleAccent", "setAccent"} /\ op.notes > 0)
       => ~sharesCaller

\* C26: at most one poll loop exists: at most one scheduleLoop timer is
\* pending, and a pending timer is the one recorded in scheduleIntervalId,
\* for every interleaving of start(), stop() and timer firings.
C26_OnePollLoop ==
  /\ Cardinality(timers) <= 1
  /\ timers \subseteq {scheduleIntervalId}

\* C27: whenever isPlaying is true between calls, the clock resource is
\* present and a poll re-arm is pending, for every interleaving of start()
\* with stop() and dispose().
C27_RunningIsLive ==
  isPlaying => (audioContext # "null" /\ scheduleIntervalId \in timers)

====
